---- MODULE Spec2Model ----
(***************************************************************************)
(* Quotation app: the record store (src/app.py save/get/delete/list), the  *)
(* form handlers generate and create_files of both entry points            *)
(* (src/app.py and src/functions/_worker.py) and the two exporters.        *)
(*                                                                         *)
(* Text is a tuple of one-character strings (<<"4","5",".","0">>) wherever *)
(* the code looks inside it (float(), str(), the f'{x:,.2f}' format, the   *)
(* ORDER BY on date); free text the code only copies is a TLA+ string.     *)
(* A Python number is [v |-> thousandths, isfloat |-> BOOLEAN]: every      *)
(* input below is a multiple of 0.125 with an integral quantity, so that   *)
(* the binary floating point arithmetic of the code is exact and equals    *)
(* the decimal arithmetic done here.                                       *)
(* An optional value (Python None, a missing form field) is <<>>, a        *)
(* present one is <<x>>.  Bind(e, LAMBDA x : body) is "x = e; body".       *)
(***************************************************************************)
EXTENDS Integers, Sequences, FiniteSets, TLC

VARIABLES
    dialect,      \* the database behind SQLALCHEMY_DATABASE_URI
    seq,          \* postgresql: last value of the id sequence
    quotations,   \* the quotation table: id -> row
    resp,         \* the last request of the record store and its response
    entry,        \* which entry point serves the form handlers
    form,         \* the submitted form (request.form)
    preview,      \* the response of generate for that form
    result,       \* the response of create_files for that form
    output,       \* the output directory: file name -> document
    sessions,     \* the save_quotation requests in progress, one per worker
    commits,      \* the workers that committed, in commit order
    jobs,         \* the create_files requests in progress, one per worker
    written       \* the file writes that completed, in order of completion

vars ==
    <<dialect, seq, quotations, resp, entry, form, preview, result, output,
      sessions, commits, jobs, written>>

storeVars == <<dialect, seq, quotations, resp>>
formVars == <<entry, form, preview, result, output>>
concVars == <<sessions, commits>>
jobVars == <<jobs, written>>

-----------------------------------------------------------------------------
(* Bounds *)

\* the largest id the table hands out
MaxId == 3
\* the number of workers that serve save_quotation at the same time
MaxReq == 2
\* the most rows a submitted form carries
MaxRows == 3

-----------------------------------------------------------------------------
(* Optional values *)

None == <<>>
Some(x) == <<x>>
IsNone(o) == o = <<>>
Val(o) == o[1]

\* a local variable: body with x bound to e
Bind(e, body(_)) == body(e)

-----------------------------------------------------------------------------
(* Python numbers, float(), str() and the ',.2f' format *)

Unit == 10 * 100

PyFloat(x) == [v |-> x, isfloat |-> TRUE]
\* the literal 0 of "total_amount = 0"
PyIntZero == [v |-> 0, isfloat |-> FALSE]

\* a + b and a - b: the result is a float as soon as one operand is
PyAdd(a, b) == [v |-> a.v + b.v, isfloat |-> a.isfloat \/ b.isfloat]
PySub(a, b) == [v |-> a.v - b.v, isfloat |-> a.isfloat \/ b.isfloat]
\* quantity * price (a.v * b.v / Unit, split so that no product leaves 32 bits)
PyMul(a, b) ==
    [v |-> (a.v \div Unit) * b.v + ((a.v % Unit) * b.v) \div Unit,
     isfloat |-> a.isfloat \/ b.isfloat]

DigitVal ==
    ("0" :> 0) @@ ("1" :> 1) @@ ("2" :> 2) @@ ("3" :> 3) @@ ("4" :> 4) @@
    ("5" :> 5) @@ ("6" :> 6) @@ ("7" :> 7) @@ ("8" :> 8) @@ ("9" :> 9)

DigitChar == <<"0", "1", "2", "3", "4", "5", "6", "7", "8", "9">>

IsDigits(s) == \A i \in 1..Len(s) : s[i] \in DOMAIN DigitVal

RECURSIVE DigitsValue(_)
DigitsValue(s) ==
    IF s = <<>> THEN 0
    ELSE DigitsValue(SubSeq(s, 1, Len(s) - 1)) * 10 + DigitVal[s[Len(s)]]

RECURSIVE Digits(_)
\* the decimal digits of a natural number
Digits(n) ==
    IF n < 10 THEN <<DigitChar[n + 1]>>
    ELSE Digits(n \div 10) \o <<DigitChar[(n % 10) + 1]>>

Pow10(k) == IF k = 0 THEN 1 ELSE IF k = 1 THEN 10 ELSE IF k = 2 THEN 100 ELSE Unit

DotsOf(s) == {i \in 1..Len(s) : s[i] = "."}

\* the value of <integer digits>.<fraction digits>, one of the two may be empty
\* (at most three fraction digits: the resolution of the model)
ParseDecimal(ip, fp) ==
    IF IsDigits(ip) /\ IsDigits(fp) /\ Len(ip) + Len(fp) > 0 /\ Len(fp) <= 3
    THEN Some(DigitsValue(ip) * Unit + DigitsValue(fp) * Pow10(3 - Len(fp)))
    ELSE None

\* float(s) of an unsigned literal: digits, digits.digits, digits. or .digits
ParseUnsigned(s) ==
    IF DotsOf(s) = {}
    THEN IF s # <<>> /\ IsDigits(s) THEN Some(DigitsValue(s) * Unit) ELSE None
    ELSE IF Cardinality(DotsOf(s)) > 1 THEN None
    ELSE Bind(CHOOSE i \in DotsOf(s) : TRUE,
              LAMBDA d : ParseDecimal(SubSeq(s, 1, d - 1), SubSeq(s, d + 1, Len(s))))

Signed(sign, u) ==
    IF IsNone(u) THEN None
    ELSE Some(PyFloat(IF sign = "-" THEN 0 - Val(u) ELSE Val(u)))

\* float(s): None stands for the ValueError of a malformed literal
ParseFloat(s) ==
    IF s # <<>> /\ s[1] \in {"-", "+"}
    THEN Signed(s[1], ParseUnsigned(Tail(s)))
    ELSE Signed("+", ParseUnsigned(s))

Abs(x) == IF x < 0 THEN 0 - x ELSE x

\* the fraction digits of repr(float): trailing zeros dropped, one digit kept
FracDigits(f) ==
    IF f % 100 = 0 THEN Digits(f \div 100)
    ELSE IF f % 10 = 0 THEN <<DigitChar[(f \div 100) + 1]>> \o Digits((f \div 10) % 10)
    ELSE <<DigitChar[(f \div 100) + 1], DigitChar[((f \div 10) % 10) + 1]>> \o Digits(f % 10)

SignOf(v) == IF v < 0 THEN <<"-">> ELSE <<>>

\* str(x): "45.0", "0.125", "-5.0"; the int 0 prints as "0"
PyStr(x) ==
    IF x.isfloat
    THEN SignOf(x.v) \o Digits(Abs(x.v) \div Unit) \o <<".">> \o FracDigits(Abs(x.v) % Unit)
    ELSE SignOf(x.v) \o Digits(Abs(x.v) \div Unit)

\* a thousandths rounded to hundredths, ties to even (every tie of the model
\* is exact in binary)
RoundCents(a) ==
    IF a % 10 > 5 \/ (a % 10 = 5 /\ (a \div 10) % 2 = 1) THEN (a \div 10) + 1 ELSE a \div 10

Pad3(n) == <<DigitChar[(n \div 100) + 1], DigitChar[((n \div 10) % 10) + 1], DigitChar[(n % 10) + 1]>>

RECURSIVE Grouped(_)
\* the digits of n with a comma every three
Grouped(n) ==
    IF n < 1000 THEN Digits(n)
    ELSE Grouped(n \div 1000) \o <<",">> \o Pad3(n % 1000)

\* c hundredths as 1,234.56
CentsText(c) ==
    Grouped(c \div 100) \o <<".">>
        \o <<DigitChar[((c \div 10) % 10) + 1], DigitChar[(c % 10) + 1]>>

\* f'{x:,.2f}'
Format2(x) == SignOf(x.v) \o CentsText(RoundCents(Abs(x.v)))

-----------------------------------------------------------------------------
(* The submitted form *)

RequiredFields ==
    {"company_name", "company_address", "company_phone", "company_email",
     "quotation_no", "date", "client_name", "client_address"}

FullHeader ==
    [company_name |-> "Acme", company_address |-> "1 Main St", company_phone |-> "555",
     company_email |-> "a@acme", quotation_no |-> "Q1", date |-> "2024-01-05",
     client_name |-> "Bob", client_address |-> "2 Side St"]

\* the form's text fields: complete, or with 'date' left out
HeaderInputs ==
    {FullHeader, [f \in RequiredFields \ {"date"} |-> FullHeader[f]]}

\* 'received': missing, empty, "20", "100", malformed
ReceivedInputs ==
    {None, Some(<<>>), Some(<<"2", "0">>), Some(<<"1", "0", "0">>), Some(<<"x">>)}

\* 'deposit_info': plain text, or text with a markup tag that is never closed
DepositInputs == {Some("30% paid"), Some("<b>")}

\* one row of the items table: <<item_name, quantity, price>>
RowInputs ==
    { <<"Widget", <<"2">>, <<"1", "0">>>>,
      <<"", <<"5">>, <<"3">>>>,
      <<"Gadget", <<"1">>, <<"2", "5">>>>,
      <<"Bolt", <<"3">>, <<"1", "2", "3", "4", ".", "6", "2", "5">>>>,
      <<"", <<"x">>, <<>>>>,
      <<"Nut", <<"x">>, <<"1", "0">>>> }

RECURSIVE SeqsUpTo(_, _)
\* the sequences over S of length at most n
SeqsUpTo(S, n) ==
    IF n = 0 THEN {<<>>}
    ELSE Bind(SeqsUpTo(S, n - 1),
              LAMBDA shorter :
                  shorter \cup {Append(s, x) : s \in {t \in shorter : Len(t) = n - 1}, x \in S})

Column(rows, k) == [i \in 1..Len(rows) |-> rows[i][k]]
DropLast(s) == IF s = <<>> THEN s ELSE SubSeq(s, 1, Len(s) - 1)

\* request.form: the three getlist() lists are independent, so quantity[] or
\* price[] may be one entry shorter than item_name[]
FormInputs ==
    { [header |-> h, received |-> r, deposit_info |-> d,
       item_name |-> Column(rows, 1),
       quantity |-> IF short = "quantity" THEN DropLast(Column(rows, 2)) ELSE Column(rows, 2),
       price |-> IF short = "price" THEN DropLast(Column(rows, 3)) ELSE Column(rows, 3)] :
      h \in HeaderInputs, r \in ReceivedInputs, d \in DepositInputs,
      rows \in SeqsUpTo(RowInputs, MaxRows), short \in {"none", "quantity", "price"} }

-----------------------------------------------------------------------------
(* generate and create_files: reading the form *)

\* request.form[...] of every required field succeeds
HeaderComplete(f) == RequiredFields \subseteq DOMAIN f.header

\* request.form.get('received', '0') or '0'
ReceivedText(f) ==
    IF IsNone(f.received) \/ Val(f.received) = <<>> THEN <<"0">> ELSE Val(f.received)

\* request.form.get('deposit_info', '')
DepositInfo(f) == IF IsNone(f.deposit_info) THEN "" ELSE Val(f.deposit_info)

\* quantity = float(quantities[i]); price = float(prices[i]); amount = quantity * price
\* None when an index is out of range or a literal is malformed
ParseRow(quantities, prices, i) ==
    IF i > Len(quantities) THEN None
    ELSE Bind(ParseFloat(quantities[i]), LAMBDA quantity :
         IF IsNone(quantity) \/ i > Len(prices) THEN None
         ELSE Bind(ParseFloat(prices[i]), LAMBDA price :
              IF IsNone(price) THEN None
              ELSE Some([quantity |-> Val(quantity), price |-> Val(price),
                         amount |-> PyMul(Val(quantity), Val(price))])))

\* the item dict appended by generate and by create_files of src/app.py
ItemDict(name, r) ==
    [name |-> name, quantity |-> r.quantity, price |-> r.price, amount |-> r.amount]

\* the row appended to items_data by create_files of src/functions/_worker.py
ItemsDataRow(name, r) ==
    <<name, r.quantity, Format2(r.price), Format2(r.amount)>>

RECURSIVE GenerateLoopNoSkip(_, _, _, _)
\* the loop without "if item_names[i]:": every row is an item
GenerateLoopNoSkip(f, i, items, total) ==
    IF i > Len(f.item_name) THEN [ok |-> TRUE, items |-> items, total_amount |-> total]
    ELSE Bind(ParseRow(f.quantity, f.price, i), LAMBDA r :
         IF IsNone(r) THEN [ok |-> FALSE]
         ELSE GenerateLoopNoSkip(f, i + 1, Append(items, ItemDict(f.item_name[i], Val(r))),
              PyAdd(total, Val(r).amount)))

RECURSIVE GenerateLoop(_, _, _, _)
\* the for loop of generate from index i on, with the accumulated items and total
GenerateLoop(f, i, items, total) ==
    IF i > Len(f.item_name) THEN [ok |-> TRUE, items |-> items, total_amount |-> total]
    ELSE IF f.item_name[i] = "" THEN GenerateLoop(f, i + 1, items, total)
    ELSE Bind(ParseRow(f.quantity, f.price, i), LAMBDA r :
         IF IsNone(r) THEN [ok |-> FALSE]
         ELSE GenerateLoop(f, i + 1, Append(items, ItemDict(f.item_name[i], Val(r))),
              PyAdd(total, Val(r).amount)))

RECURSIVE CreateFilesLoopParseFirst(_, _, _, _)
\* the loop with float(quantities[i]) and float(prices[i]) before the test
\* of the name
CreateFilesLoopParseFirst(f, i, items, total) ==
    IF i > Len(f.item_name) THEN [ok |-> TRUE, items |-> items, total_amount |-> total]
    ELSE Bind(ParseRow(f.quantity, f.price, i), LAMBDA r :
         IF IsNone(r) THEN [ok |-> FALSE]
         ELSE IF f.item_name[i] = ""
         THEN CreateFilesLoopParseFirst(f, i + 1, items, total)
         ELSE CreateFilesLoopParseFirst(f, i + 1,
                  Append(items, ItemDict(f.item_name[i], Val(r))),
                  PyAdd(total, Val(r).amount)))

RECURSIVE CreateFilesLoop(_, _, _, _)
\* the for loop of create_files (src/app.py)
CreateFilesLoop(f, i, items, total) ==
    IF i > Len(f.item_name) THEN [ok |-> TRUE, items |-> items, total_amount |-> total]
    ELSE IF f.item_name[i] = "" THEN CreateFilesLoop(f, i + 1, items, total)
    ELSE Bind(ParseRow(f.quantity, f.price, i), LAMBDA r :
         IF IsNone(r) THEN [ok |-> FALSE]
         ELSE CreateFilesLoop(f, i + 1, Append(items, ItemDict(f.item_name[i], Val(r))),
              PyAdd(total, Val(r).amount)))

RECURSIVE WorkerLoop(_, _, _, _)
\* the for loop of create_files (src/functions/_worker.py)
WorkerLoop(f, i, items, total) ==
    IF i > Len(f.item_name) THEN [ok |-> TRUE, items |-> items, total_amount |-> total]
    ELSE IF f.item_name[i] = "" THEN WorkerLoop(f, i + 1, items, total)
    ELSE Bind(ParseRow(f.quantity, f.price, i), LAMBDA r :
         IF IsNone(r) THEN [ok |-> FALSE]
         ELSE WorkerLoop(f, i + 1, Append(items, ItemsDataRow(f.item_name[i], Val(r))),
              PyAdd(total, Val(r).amount)))

\* data['balance'] = total_amount - data['received']
GenerateBalance(total, received) == PySub(total, received)

\* a balance that never goes below zero: max(0, total_amount - received)
ClampedBalance(total, received) ==
    IF total.v < received.v THEN PyFloat(0) ELSE PySub(total, received)

\* balance = total_amount - received
CreateFilesBalance(total, received) == PySub(total, received)

\* balance = total_amount - received (src/functions/_worker.py)
WorkerBalance(total, received) == PySub(total, received)

\* the response of generate: 400 for a missing required field, 500 for a
\* ValueError or IndexError, else the data and items handed to preview.html
Generate(f) ==
    IF ~HeaderComplete(f) THEN [status |-> 400]
    ELSE Bind(ParseFloat(ReceivedText(f)), LAMBDA received :
         IF IsNone(received) THEN [status |-> 500]
         ELSE Bind(GenerateLoop(f, 1, <<>>, PyIntZero), LAMBDA loop :
              IF ~loop.ok THEN [status |-> 500]
              ELSE [status |-> 200,
                    data |-> [header |-> f.header,
                              received |-> Val(received),
                              deposit_info |-> DepositInfo(f),
                              total_amount |-> loop.total_amount,
                              balance |-> GenerateBalance(loop.total_amount, Val(received))],
                    items |-> loop.items]))

-----------------------------------------------------------------------------
(* The exporters.  A cell is [num |-> number] or [str |-> text]; a document  *)
(* is the cells the code puts in it.                                         *)

NumCell(x) == [num |-> x]
StrCell(t) == [str |-> t]

\* reportlab draws a cell that is not a string as str(cell)
Drawn(x) == StrCell(PyStr(x))

\* generate_excel: ws.cell(row, 1..4, ...) of one item
ExcelItemRow(item) ==
    <<StrCell(item.name), NumCell(item.quantity), NumCell(item.price), NumCell(item.amount)>>

\* a workbook saved under a name without the quotation number
GenerateExcelFixedName(header, items, total_amount, received, balance, deposit_info) ==
    [name |-> <<"Quotation", "xlsx">>,
     doc |-> [header |-> header,
              items |-> [i \in 1..Len(items) |-> ExcelItemRow(items[i])],
              total |-> NumCell(total_amount),
              received |-> NumCell(received),
              balance |-> NumCell(balance),
              deposit_info |-> deposit_info]]

\* generate_excel: the workbook saved as Quotation_<quotation_no>.xlsx
GenerateExcel(header, items, total_amount, received, balance, deposit_info) ==
    [name |-> <<"Quotation", header.quotation_no, "xlsx">>,
     doc |-> [header |-> header,
              items |-> [i \in 1..Len(items) |-> ExcelItemRow(items[i])],
              total |-> NumCell(total_amount),
              received |-> NumCell(received),
              balance |-> NumCell(balance),
              deposit_info |-> deposit_info]]

\* the texts that are markup with an unclosed tag
UnclosedMarkup == {"<b>"}

\* Paragraph(text, style) parses text as markup and raises ValueError when a
\* tag is left open
ParagraphParses(text) == text \notin UnclosedMarkup

\* generate_pdf: every Paragraph(...) it makes before doc.build is built
PdfParagraphsParse(header, deposit_info) ==
    /\ \A k \in {"company_name", "company_address", "company_phone", "company_email"} :
          ParagraphParses(header[k])
    /\ ParagraphParses(deposit_info)

\* generate_pdf: item_data.append([name, quantity, price, amount])
PdfItemRow(item) ==
    <<StrCell(item.name), Drawn(item.quantity), Drawn(item.price), Drawn(item.amount)>>

\* a totals table whose balance row draws total_amount
GeneratePdfBalanceIsTotal(header, items, total_amount, received, balance, deposit_info) ==
    [name |-> <<"Quotation", header.quotation_no, "pdf">>,
     doc |-> [header |-> header,
              items |-> [i \in 1..Len(items) |-> PdfItemRow(items[i])],
              total |-> Drawn(total_amount),
              received |-> Drawn(received),
              balance |-> Drawn(total_amount),
              deposit_info |-> deposit_info]]

\* generate_pdf: the document built as Quotation_<quotation_no>.pdf
GeneratePdf(header, items, total_amount, received, balance, deposit_info) ==
    [name |-> <<"Quotation", header.quotation_no, "pdf">>,
     doc |-> [header |-> header,
              items |-> [i \in 1..Len(items) |-> PdfItemRow(items[i])],
              total |-> Drawn(total_amount),
              received |-> Drawn(received),
              balance |-> Drawn(balance),
              deposit_info |-> deposit_info]]

\* f'({received:,.2f})'
Parenthesised(x) == <<"(">> \o Format2(x) \o <<")">>

\* ws.append(item) of one items_data row
WorkerExcelItemRow(row) ==
    <<StrCell(row[1]), NumCell(row[2]), StrCell(row[3]), StrCell(row[4])>>

\* the workbook create_files of the worker saves as Quotation.xlsx
WorkerExcel(header, items_data, total_amount, received, deposit_info) ==
    [name |-> <<"Quotation", "xlsx">>,
     doc |-> [header |-> header,
              items |-> [i \in 1..Len(items_data) |-> WorkerExcelItemRow(items_data[i])],
              total |-> StrCell(Format2(total_amount)),
              received |-> StrCell(Parenthesised(received)),
              balance |-> StrCell(Format2(WorkerBalance(total_amount, received))),
              deposit_info |-> deposit_info]]

\* [Paragraph(str(col), ...) for col in row]
WorkerPdfItemRow(row) ==
    <<StrCell(row[1]), StrCell(PyStr(row[2])), StrCell(row[3]), StrCell(row[4])>>

\* create_files of the worker: every Paragraph(...) of the story is built
WorkerParagraphsParse(header, items_data, deposit_info) ==
    /\ \A k \in RequiredFields : ParagraphParses(header[k])
    /\ \A i \in 1..Len(items_data) : ParagraphParses(items_data[i][1])
    /\ ParagraphParses(deposit_info)

\* the document create_files of the worker builds as Quotation.pdf
WorkerPdf(header, items_data, total_amount, received, deposit_info) ==
    [name |-> <<"Quotation", "pdf">>,
     doc |-> [header |-> header,
              items |-> [i \in 1..Len(items_data) |-> WorkerPdfItemRow(items_data[i])],
              total |-> StrCell(Format2(total_amount)),
              received |-> StrCell(Parenthesised(received)),
              balance |-> StrCell(Format2(WorkerBalance(total_amount, received))),
              deposit_info |-> deposit_info]]

\* create_files (src/app.py) from the parsed form on: the response with the
\* values the handler computed (its locals when it returns), and the files
\* generate_excel and generate_pdf write, in that order; when generate_pdf
\* raises, the spreadsheet is already saved
CreateFilesExport(f, received, items, total_amount, balance) ==
    Bind(GenerateExcel(f.header, items, total_amount, received, balance, DepositInfo(f)),
         LAMBDA excel :
    IF ~PdfParagraphsParse(f.header, DepositInfo(f))
    THEN [response |-> [status |-> 500], files |-> <<excel>>]
    ELSE
    Bind(GeneratePdf(f.header, items, total_amount, received, balance, DepositInfo(f)),
         LAMBDA pdf :
         [response |-> [status |-> 200,
                        items |-> items,
                        total_amount |-> total_amount,
                        received |-> received,
                        balance |-> balance,
                        excel_file |-> excel.name,
                        pdf_file |-> pdf.name],
          files |-> <<excel, pdf>>]))

\* create_files (src/app.py)
CreateFiles(f) ==
    IF ~HeaderComplete(f) THEN [response |-> [status |-> 400], files |-> <<>>]
    ELSE Bind(ParseFloat(ReceivedText(f)), LAMBDA received :
         IF IsNone(received) THEN [response |-> [status |-> 500], files |-> <<>>]
         ELSE Bind(CreateFilesLoop(f, 1, <<>>, PyIntZero), LAMBDA loop :
              IF ~loop.ok THEN [response |-> [status |-> 500], files |-> <<>>]
              ELSE CreateFilesExport(f, Val(received), loop.items, loop.total_amount,
                                     CreateFilesBalance(loop.total_amount, Val(received)))))

\* create_files (src/functions/_worker.py) from the parsed form on; when a
\* Paragraph of the PDF raises, Quotation.xlsx is already saved
WorkerExport(f, received, items_data, total_amount) ==
    Bind(WorkerExcel(f.header, items_data, total_amount, received, DepositInfo(f)),
         LAMBDA excel :
    IF ~WorkerParagraphsParse(f.header, items_data, DepositInfo(f))
    THEN [response |-> [status |-> 500], files |-> <<excel>>]
    ELSE
    Bind(WorkerPdf(f.header, items_data, total_amount, received, DepositInfo(f)),
         LAMBDA pdf :
         [response |-> [status |-> 200,
                        items |-> items_data,
                        total_amount |-> total_amount,
                        received |-> received,
                        balance |-> WorkerBalance(total_amount, received),
                        excel_file |-> excel.name,
                        pdf_file |-> pdf.name],
          files |-> <<excel, pdf>>]))

\* create_files (src/functions/_worker.py)
WorkerCreateFiles(f) ==
    IF ~HeaderComplete(f) THEN [response |-> [status |-> 400], files |-> <<>>]
    ELSE Bind(ParseFloat(ReceivedText(f)), LAMBDA received :
         IF IsNone(received) THEN [response |-> [status |-> 500], files |-> <<>>]
         ELSE Bind(WorkerLoop(f, 1, <<>>, PyIntZero), LAMBDA loop :
              IF ~loop.ok THEN [response |-> [status |-> 500], files |-> <<>>]
              ELSE WorkerExport(f, Val(received), loop.items, loop.total_amount)))

RECURSIVE WriteFiles(_, _)
\* the output directory after the files are written, in order
WriteFiles(dir, files) ==
    IF files = <<>> THEN dir
    ELSE WriteFiles((files[1].name :> files[1].doc) @@ dir, Tail(files))

-----------------------------------------------------------------------------
(* The form handlers as a state machine *)

\* the record store takes no part in the form handlers
StoreIdle ==
    /\ dialect = "sqlite"
    /\ seq = 0
    /\ quotations = <<>>
    /\ resp = None

\* a worker with no save_quotation request
NoSession == [pc |-> "idle", data |-> None, loaded |-> None, quotation |-> None,
              seen |-> <<>>, status |-> 0]

\* no worker is serving save_quotation
ConcIdle ==
    /\ sessions = [w \in 1..MaxReq |-> NoSession]
    /\ commits = <<>>

\* a worker with no create_files request
NoJob == [pc |-> "idle", form |-> None, todo |-> <<>>, raced |-> {}, status |-> 0]

\* no worker is serving create_files at the same time as another
JobsIdle ==
    /\ jobs = [w \in 1..MaxReq |-> NoJob]
    /\ written = <<>>

FormInit ==
    /\ StoreIdle
    /\ ConcIdle
    /\ JobsIdle
    /\ entry \in {"app", "worker"}
    /\ form \in FormInputs
    /\ preview = None
    /\ result = None
    /\ output = <<>>

\* POST /generate
DoGenerate ==
    /\ preview' = Some(Generate(form))
    /\ UNCHANGED <<entry, form, result, output>>
    /\ UNCHANGED storeVars
    /\ UNCHANGED concVars
    /\ UNCHANGED jobVars

\* POST /create_files served by src/app.py
DoCreateFiles ==
    /\ entry = "app"
    /\ Bind(CreateFiles(form), LAMBDA r :
            /\ result' = Some(r.response)
            /\ output' = WriteFiles(output, r.files))
    /\ UNCHANGED <<entry, form, preview>>
    /\ UNCHANGED storeVars
    /\ UNCHANGED concVars
    /\ UNCHANGED jobVars

\* POST /create_files served by src/functions/_worker.py
DoWorkerCreateFiles ==
    /\ entry = "worker"
    /\ Bind(WorkerCreateFiles(form), LAMBDA r :
            /\ result' = Some(r.response)
            /\ output' = WriteFiles(output, r.files))
    /\ UNCHANGED <<entry, form, preview>>
    /\ UNCHANGED storeVars
    /\ UNCHANGED concVars
    /\ UNCHANGED jobVars

FormNext == DoGenerate \/ DoCreateFiles \/ DoWorkerCreateFiles

SpecForm == FormInit /\ [][FormNext]_vars

-----------------------------------------------------------------------------
(* The record store: class Quotation and the /api routes *)

\* the columns of Quotation besides id, in the order save_quotation assigns them
Columns ==
    {"company_name", "company_address", "company_phone", "company_email",
     "client_name", "client_address", "quotation_no", "date", "received",
     "deposit_info", "items"}

\* data.get(key): None when the key is absent or its value is null (a
\* payload is the record of its members that are not null, with the keys
\* whose value is null, if any, in the field "null")
DataGet(data, key) == IF key \in DOMAIN data THEN Some(data[key]) ELSE None

\* "if quotation_id:" -- None and 0 are false
Truthy(o) == ~IsNone(o) /\ Val(o) # 0

JsonStr(str) == <<"\"", str, "\"">>

\* one item of the items list as JSON text (a tuple of tokens)
JsonItem(item) ==
    <<"{">> \o JsonStr("name") \o <<": ">> \o JsonStr(item.name) \o <<", ">>
        \o JsonStr("quantity") \o <<": ", ToString(item.quantity), ", ">>
        \o JsonStr("price") \o <<": ", ToString(item.price), "}">>

RECURSIVE JsonJoin(_)
JsonJoin(items) ==
    IF items = <<>> THEN <<>>
    ELSE IF Len(items) = 1 THEN JsonItem(items[1])
    ELSE JsonItem(items[1]) \o <<", ">> \o JsonJoin(Tail(items))

\* json.dumps(items)
JsonDumps(items) == <<"[">> \o JsonJoin(items) \o <<"]">>

\* items_json = json.dumps(data.get('items', []))
ItemsJson(data) == JsonDumps(IF "items" \in DOMAIN data THEN data.items ELSE <<>>)

\* Quotation(): every column unset
NewQuotation == [c \in Columns |-> None]

\* the assignments without "quotation.deposit_info = data.get('deposit_info')"
AssignFieldsButDeposit(quotation, data) ==
    [quotation EXCEPT
        !.company_name = DataGet(data, "company_name"),
        !.company_address = DataGet(data, "company_address"),
        !.company_phone = DataGet(data, "company_phone"),
        !.company_email = DataGet(data, "company_email"),
        !.client_name = DataGet(data, "client_name"),
        !.client_address = DataGet(data, "client_address"),
        !.quotation_no = DataGet(data, "quotation_no"),
        !.date = DataGet(data, "date"),
        !.received = DataGet(data, "received"),
        !.items = Some(ItemsJson(data))]

\* quotation.<column> = data.get('<column>') for each column; quotation.items = items_json
AssignFields(quotation, data) ==
    [quotation EXCEPT
        !.company_name = DataGet(data, "company_name"),
        !.company_address = DataGet(data, "company_address"),
        !.company_phone = DataGet(data, "company_phone"),
        !.company_email = DataGet(data, "company_email"),
        !.client_name = DataGet(data, "client_name"),
        !.client_address = DataGet(data, "client_address"),
        !.quotation_no = DataGet(data, "quotation_no"),
        !.date = DataGet(data, "date"),
        !.received = DataGet(data, "received"),
        !.deposit_info = DataGet(data, "deposit_info"),
        !.items = Some(ItemsJson(data))]

\* Quotation.to_dict
ToDict(id, q) ==
    [id |-> id,
     company_name |-> q.company_name,
     company_address |-> q.company_address,
     company_phone |-> q.company_phone,
     company_email |-> q.company_email,
     client_name |-> q.client_name,
     client_address |-> q.client_address,
     quotation_no |-> q.quotation_no,
     date |-> q.date,
     items |-> q.items,
     received |-> q.received,
     deposit_info |-> q.deposit_info]

\* Quotation.query.get(id)
QueryGet(table, id) == IF id \in DOMAIN table THEN Some(table[id]) ELSE None

Max(S) == CHOOSE x \in S : \A y \in S : y <= x

\* the id the database gives an inserted row (id is an INTEGER primary key):
\* sqlite takes the largest rowid in the table plus one, postgresql the next
\* value of the column's sequence
NextId(d, table, seqv) ==
    IF d = "sqlite"
    THEN IF DOMAIN table = {} THEN 1 ELSE Max(DOMAIN table) + 1
    ELSE seqv + 1

\* db.session.add(quotation); db.session.commit() of a new object
Insert(table, id, quotation) == (id :> quotation) @@ table

\* db.session.commit() of an object loaded as `loaded` and now `quotation`: the
\* session writes the attributes whose value differs from the loaded one
\* (UPDATE quotation SET <changed columns> WHERE id = ?)
FlushUpdate(table, id, loaded, quotation) ==
    [table EXCEPT ![id] = [c \in Columns |-> IF quotation[c] # loaded[c] THEN quotation[c]
                                             ELSE table[id][c]]]

\* a DELETE whose WHERE clause is "id >= ?"
DeleteRowAndLater(table, id) == [j \in {k \in DOMAIN table : k < id} |-> table[j]]

\* db.session.delete(quotation); db.session.commit()
DeleteRow(table, id) == [j \in DOMAIN table \ {id} |-> table[j]]

\* save_quotation that never looks at data['id']: every save is a new row
SaveQuotationAlwaysNew(d, table, seqv, data) ==
    Bind(NextId(d, table, seqv), LAMBDA id :
         [table |-> Insert(table, id, AssignFields(NewQuotation, data)),
          seq |-> IF d = "sqlite" THEN seqv ELSE id, status |-> 200,
          body |-> [success |-> TRUE, id |-> id]])

\* save_quotation that makes the row when the id is not found
SaveQuotationUpsert(d, table, seqv, data) ==
    IF Truthy(DataGet(data, "id"))
    THEN Bind(QueryGet(table, data.id), LAMBDA quotation :
         IF IsNone(quotation)
         THEN [table |-> Insert(table, data.id, AssignFields(NewQuotation, data)),
               seq |-> seqv, status |-> 200,
               body |-> [success |-> TRUE, id |-> data.id]]
         ELSE [table |-> FlushUpdate(table, data.id, Val(quotation),
                                     AssignFields(Val(quotation), data)),
               seq |-> seqv, status |-> 200,
               body |-> [success |-> TRUE, id |-> data.id]])
    ELSE Bind(NextId(d, table, seqv), LAMBDA id :
         [table |-> Insert(table, id, AssignFields(NewQuotation, data)),
          seq |-> IF d = "sqlite" THEN seqv ELSE id, status |-> 200,
          body |-> [success |-> TRUE, id |-> id]])

\* save_quotation with the whole request served at once
SaveQuotation(d, table, seqv, data) ==
    IF Truthy(DataGet(data, "id"))
    THEN Bind(QueryGet(table, data.id), LAMBDA quotation :
         IF IsNone(quotation)
         THEN [table |-> table, seq |-> seqv, status |-> 404,
               body |-> [success |-> FALSE]]
         ELSE [table |-> FlushUpdate(table, data.id, Val(quotation),
                                     AssignFields(Val(quotation), data)),
               seq |-> seqv, status |-> 200,
               body |-> [success |-> TRUE, id |-> data.id]])
    ELSE Bind(NextId(d, table, seqv), LAMBDA id :
         [table |-> Insert(table, id, AssignFields(NewQuotation, data)),
          seq |-> IF d = "sqlite" THEN seqv ELSE id, status |-> 200,
          body |-> [success |-> TRUE, id |-> id]])

\* get_quotation
GetQuotation(table, id) ==
    Bind(QueryGet(table, id), LAMBDA quotation :
         IF ~IsNone(quotation)
         THEN [status |-> 200, body |-> ToDict(id, Val(quotation))]
         ELSE [status |-> 404, body |-> [error |-> "Quotation not found"]])

\* delete_quotation without the "if quotation:" test
DeleteQuotationUnchecked(table, id) ==
    [table |-> DeleteRow(table, id), status |-> 200, body |-> [success |-> TRUE]]

\* delete_quotation
DeleteQuotation(table, id) ==
    IF ~IsNone(QueryGet(table, id))
    THEN [table |-> DeleteRow(table, id), status |-> 200, body |-> [success |-> TRUE]]
    ELSE [table |-> table, status |-> 404, body |-> [error |-> "Quotation not found"]]

\* the code point of a character of a date
Ord(c) == IF c = "-" THEN 45 ELSE 48 + DigitVal[c]

RECURSIVE TextLess(_, _)
\* a < b for two strings, character by character
TextLess(a, b) ==
    IF b = <<>> THEN FALSE
    ELSE IF a = <<>> THEN TRUE
    ELSE IF Ord(a[1]) # Ord(b[1]) THEN Ord(a[1]) < Ord(b[1])
    ELSE TextLess(Tail(a), Tail(b))

\* ORDER BY date without DESC
AscBefore(d, a, b) ==
    IF IsNone(a.date) /\ IsNone(b.date) THEN TRUE
    ELSE IF IsNone(a.date) THEN d = "sqlite"
    ELSE IF IsNone(b.date) THEN d # "sqlite"
    ELSE ~TextLess(Val(b.date), Val(a.date))

\* row a may come before row b under ORDER BY date DESC: NULL sorts as the
\* smallest value on sqlite and as the largest on postgresql
DescBefore(d, a, b) ==
    IF IsNone(a.date) /\ IsNone(b.date) THEN TRUE
    ELSE IF IsNone(a.date) THEN d # "sqlite"
    ELSE IF IsNone(b.date) THEN d = "sqlite"
    ELSE ~TextLess(Val(a.date), Val(b.date))

\* the orders in which Quotation.query.order_by(Quotation.date.desc()).all()
\* may return the ids: rows with equal dates come in any order
OrderByDateDesc(d, table) ==
    {order \in [1..Cardinality(DOMAIN table) -> DOMAIN table] :
        /\ \A i, j \in DOMAIN order : i # j => order[i] # order[j]
        /\ \A i \in DOMAIN order : \A j \in DOMAIN order :
              i < j => DescBefore(d, table[order[i]], table[order[j]])}

\* get_quotations returning the rows in the order `order`
GetQuotations(table, order) ==
    [status |-> 200, body |-> [i \in DOMAIN order |-> ToDict(order[i], table[order[i]])]]

-----------------------------------------------------------------------------
(* The requests of the record store *)

Date1 == <<"2", "0", "2", "4", "-", "0", "1", "-", "0", "5">>
Date2 == <<"2", "0", "2", "4", "-", "1", "-", "3">>

\* JSON bodies of POST /api/save_quotation, without the id
BodyInputs ==
    { [company_name |-> "Acme", company_address |-> "1 Main St", company_phone |-> "555",
       company_email |-> "a@acme", client_name |-> "Bob", client_address |-> "2 Side St",
       quotation_no |-> "Q1", date |-> Date1, received |-> 20, deposit_info |-> "30% paid",
       items |-> <<[name |-> "Widget", quantity |-> 2, price |-> 10]>>],
      [company_name |-> "Acme", company_address |-> "9 High St", company_phone |-> "777",
       company_email |-> "b@acme", client_name |-> "Eve", client_address |-> "3 Low St",
       quotation_no |-> "Q2", date |-> Date2, received |-> 0, deposit_info |-> "",
       items |-> <<>>],
      [company_name |-> "Zeta", date |-> Date1],
      [quotation_no |-> "Q3"] }

\* the same bodies with no id, id null, id 0, or an id
DataInputs ==
    BodyInputs
    \cup {[null |-> {"id"}] @@ b : b \in BodyInputs}
    \cup {[id |-> i] @@ b : i \in 0..MaxId, b \in BodyInputs}

\* no form has been submitted
FormIdle ==
    /\ entry = "app"
    /\ form = None
    /\ preview = None
    /\ result = None
    /\ output = <<>>

StoreInit ==
    /\ dialect \in {"sqlite", "postgresql"}
    /\ seq = 0
    /\ quotations = <<>>
    /\ resp = None
    /\ FormIdle
    /\ ConcIdle
    /\ JobsIdle

\* POST /api/save_quotation
DoSaveQuotation ==
    /\ \E data \in DataInputs :
          Bind(SaveQuotation(dialect, quotations, seq, data), LAMBDA r :
               /\ DOMAIN r.table \subseteq 1..MaxId
               /\ quotations' = r.table
               /\ seq' = r.seq
               /\ resp' = Some([op |-> "save_quotation", data |-> data,
                                status |-> r.status, body |-> r.body]))
    /\ UNCHANGED dialect
    /\ UNCHANGED formVars
    /\ UNCHANGED concVars
    /\ UNCHANGED jobVars

\* GET /api/get_quotation/<int:id>
DoGetQuotation ==
    /\ \E id \in 0..MaxId :
          Bind(GetQuotation(quotations, id), LAMBDA r :
               resp' = Some([op |-> "get_quotation", id |-> id,
                             status |-> r.status, body |-> r.body]))
    /\ UNCHANGED <<dialect, seq, quotations>>
    /\ UNCHANGED formVars
    /\ UNCHANGED concVars
    /\ UNCHANGED jobVars

\* DELETE /api/delete_quotation/<int:id>
DoDeleteQuotation ==
    /\ \E id \in 0..MaxId :
          Bind(DeleteQuotation(quotations, id), LAMBDA r :
               /\ quotations' = r.table
               /\ resp' = Some([op |-> "delete_quotation", id |-> id,
                                status |-> r.status, body |-> r.body]))
    /\ UNCHANGED <<dialect, seq>>
    /\ UNCHANGED formVars
    /\ UNCHANGED concVars
    /\ UNCHANGED jobVars

\* GET /api/quotations
DoGetQuotations ==
    /\ \E order \in OrderByDateDesc(dialect, quotations) :
          Bind(GetQuotations(quotations, order), LAMBDA r :
               resp' = Some([op |-> "get_quotations", status |-> r.status, body |-> r.body]))
    /\ UNCHANGED <<dialect, seq, quotations>>
    /\ UNCHANGED formVars
    /\ UNCHANGED concVars
    /\ UNCHANGED jobVars

Next == DoSaveQuotation \/ DoGetQuotation \/ DoDeleteQuotation \/ DoGetQuotations

Init == StoreInit

Spec == Init /\ [][Next]_vars

-----------------------------------------------------------------------------
(* save_quotation served by several workers at once: each worker runs the    *)
(* handler in its own database session; the SELECT of Quotation.query.get    *)
(* and the statements of db.session.commit() are the steps that touch the    *)
(* table, the assignments in between touch the worker's own object only.     *)

\* the requests the workers receive: a create, or an update of id 1 or 2
ConcInputs == BodyInputs \cup {[id |-> i] @@ b : i \in 1..2, b \in BodyInputs}

\* the store holds one saved quotation when the workers start
ConcInit ==
    /\ dialect \in {"sqlite", "postgresql"}
    /\ \E b \in BodyInputs :
          Bind(SaveQuotation(dialect, <<>>, 0, b), LAMBDA r :
               quotations = r.table /\ seq = r.seq)
    /\ resp = None
    /\ FormIdle
    /\ ConcIdle
    /\ JobsIdle

\* worker w receives a request and runs save_quotation up to the commit:
\* reads the id, loads the row (404 when there is none) or makes a new
\* object, and assigns the columns
ConcRead(w) ==
    /\ sessions[w].pc = "idle"
    /\ \E data \in ConcInputs :
          IF Truthy(DataGet(data, "id"))
          THEN Bind(QueryGet(quotations, data.id), LAMBDA quotation :
               IF IsNone(quotation)
               THEN sessions' = [sessions EXCEPT ![w] =
                        [pc |-> "done", data |-> Some(data), loaded |-> None,
                         quotation |-> None, seen |-> commits, status |-> 404]]
               ELSE sessions' = [sessions EXCEPT ![w] =
                        [pc |-> "assigned", data |-> Some(data), loaded |-> quotation,
                         quotation |-> Some(AssignFields(Val(quotation), data)),
                         seen |-> commits, status |-> 0]])
          ELSE sessions' = [sessions EXCEPT ![w] =
                   [pc |-> "assigned", data |-> Some(data), loaded |-> None,
                    quotation |-> Some(AssignFields(NewQuotation, data)),
                    seen |-> commits, status |-> 0]]
    /\ UNCHANGED <<dialect, seq, quotations, resp, commits>>
    /\ UNCHANGED formVars
    /\ UNCHANGED jobVars

\* worker w commits a new object: db.session.add and db.session.commit
ConcInsert(w) ==
    /\ sessions[w].pc = "assigned"
    /\ IsNone(sessions[w].loaded)
    /\ Bind(NextId(dialect, quotations, seq), LAMBDA id :
            /\ id <= MaxId
            /\ quotations' = Insert(quotations, id, Val(sessions[w].quotation))
            /\ seq' = IF dialect = "sqlite" THEN seq ELSE id)
    /\ sessions' = [sessions EXCEPT ![w].pc = "done", ![w].status = 200]
    /\ commits' = Append(commits, w)
    /\ UNCHANGED <<dialect, resp>>
    /\ UNCHANGED formVars
    /\ UNCHANGED jobVars

\* worker w commits the object it loaded: db.session.commit
ConcUpdate(w) ==
    /\ sessions[w].pc = "assigned"
    /\ ~IsNone(sessions[w].loaded)
    /\ quotations' = FlushUpdate(quotations, Val(sessions[w].data).id,
                                  Val(sessions[w].loaded), Val(sessions[w].quotation))
    /\ sessions' = [sessions EXCEPT ![w].pc = "done", ![w].status = 200]
    /\ commits' = Append(commits, w)
    /\ UNCHANGED <<dialect, seq, resp>>
    /\ UNCHANGED formVars
    /\ UNCHANGED jobVars

ConcNext == \E w \in 1..MaxReq : ConcRead(w) \/ ConcInsert(w) \/ ConcUpdate(w)

SpecConc == ConcInit /\ [][ConcNext]_vars

-----------------------------------------------------------------------------
(* create_files served by several workers at once.  The workers share the    *)
(* output directory.  Saving a file opens it for writing, which empties it,  *)
(* and then writes the document; until the document is written the file is   *)
(* incomplete, and two saves of one file that overlap leave the bytes of     *)
(* the one, of the other, or a mixture of both.                              *)

\* a file that is not the complete document of any request
Torn == [torn |-> TRUE]

\* a form with one row
JobForm(h, row) ==
    [header |-> h, received |-> None, deposit_info |-> Some("30% paid"),
     item_name |-> <<row[1]>>, quantity |-> <<row[2]>>, price |-> <<row[3]>>]

\* the forms the workers receive: quotation number Q1 with a Widget or a
\* Gadget row, quotation number Q2, and a form whose only row does not parse
JobForms ==
    {JobForm(FullHeader, <<"Widget", <<"2">>, <<"1", "0">>>>),
     JobForm(FullHeader, <<"Gadget", <<"1">>, <<"2", "5">>>>),
     JobForm([FullHeader EXCEPT !.quotation_no = "Q2"], <<"Widget", <<"2">>, <<"1", "0">>>>),
     JobForm(FullHeader, <<"Nut", <<"x">>, <<"1", "0">>>>)}

FilesInit ==
    /\ StoreIdle
    /\ ConcIdle
    /\ JobsIdle
    /\ entry \in {"app", "worker"}
    /\ form = None
    /\ preview = None
    /\ result = None
    /\ output = <<>>

\* create_files of the entry point that serves the requests
ServeCreateFiles(e, f) == IF e = "app" THEN CreateFiles(f) ELSE WorkerCreateFiles(f)

\* the job of a worker that ran create_files on f up to its first file
ReceivedJob(f, r) ==
    [pc |-> IF r.files = <<>> THEN "done" ELSE "ready", form |-> Some(f), todo |-> r.files,
     raced |-> {}, status |-> IF r.files = <<>> THEN r.response.status ELSE 0]

\* worker w receives a request and reads the form; a request that fails
\* there is answered at once
JobReceive(w) ==
    /\ jobs[w].pc = "idle"
    /\ \E f \in JobForms :
          jobs' = [jobs EXCEPT ![w] = ReceivedJob(f, ServeCreateFiles(entry, f))]
    /\ UNCHANGED <<entry, form, preview, result, output, written>>
    /\ UNCHANGED storeVars
    /\ UNCHANGED concVars

\* the workers that are writing the file `name`
Writing(name) == {v \in 1..MaxReq : jobs[v].pc = "writing" /\ jobs[v].todo[1].name = name}

\* the jobs after w opened the file of document d while the workers vs were
\* writing it
OpenedBy(w, d, vs) ==
    [v \in 1..MaxReq |->
        IF v = w THEN [jobs[v] EXCEPT !.pc = "writing",
                                      !.raced = {jobs[u].todo[1].doc : u \in vs}]
        ELSE IF v \in vs THEN [jobs[v] EXCEPT !.raced = @ \cup {d}]
        ELSE jobs[v]]

\* worker w opens its next file for writing: wb.save(filepath) or
\* doc.build(...) up to the point where the file exists and is empty
JobOpen(w) ==
    /\ jobs[w].pc = "ready"
    /\ output' = (jobs[w].todo[1].name :> Torn) @@ output
    /\ jobs' = OpenedBy(w, jobs[w].todo[1].doc, Writing(jobs[w].todo[1].name))
    /\ UNCHANGED <<entry, form, preview, result, written>>
    /\ UNCHANGED storeVars
    /\ UNCHANGED concVars

\* what the file may hold when a save of document d that overlapped the
\* saves of the documents `raced` completes
Outcomes(d, raced) == IF raced = {} THEN {d} ELSE {d, Torn} \cup raced

\* the job after its first file is written: the next file, or the response
\* (200 when both files were written)
Advanced(job, r) ==
    [job EXCEPT !.todo = Tail(@), !.raced = {},
                !.pc = IF Len(job.todo) = 1 THEN "done" ELSE "ready",
                !.status = IF Len(job.todo) = 1 THEN r.response.status ELSE 0]

\* worker w finishes writing its file and closes it
JobClose(w) ==
    /\ jobs[w].pc = "writing"
    /\ \E content \in Outcomes(jobs[w].todo[1].doc, jobs[w].raced) :
          output' = (jobs[w].todo[1].name :> content) @@ output
    /\ written' = Append(written, [by |-> w, name |-> jobs[w].todo[1].name,
                                    doc |-> jobs[w].todo[1].doc,
                                    raced |-> jobs[w].raced # {}])
    /\ jobs' = [jobs EXCEPT ![w] =
                   Advanced(jobs[w], ServeCreateFiles(entry, Val(jobs[w].form)))]
    /\ UNCHANGED <<entry, form, preview, result>>
    /\ UNCHANGED storeVars
    /\ UNCHANGED concVars

FilesNext == \E w \in 1..MaxReq : JobReceive(w) \/ JobOpen(w) \/ JobClose(w)

SpecFiles == FilesInit /\ [][FilesNext]_vars

-----------------------------------------------------------------------------
(* Claims about the form handlers (checked under SpecForm) *)

\* the positions of the submitted rows whose name is not empty
NamedRows(f) == {i \in 1..Len(f.item_name) : f.item_name[i] # ""}

\* the k-th of them, in submission order
NthNamed(f, k) ==
    CHOOSE i \in NamedRows(f) : Cardinality({j \in NamedRows(f) : j < i}) = k - 1

\* quantity * price of the submitted row i, in thousandths
RowAmount(f, i) == PyMul(Val(ParseFloat(f.quantity[i])), Val(ParseFloat(f.price[i]))).v

RECURSIVE SumRowAmounts(_, _)
SumRowAmounts(f, rows) ==
    IF rows = {} THEN 0
    ELSE Bind(CHOOSE i \in rows : TRUE,
              LAMBDA i : RowAmount(f, i) + SumRowAmounts(f, rows \ {i}))

\* items (dicts of generate and of create_files in src/app.py) are the named
\* rows of the form in order, each with amount = quantity * price, and total
\* is the sum of quantity * price over the named rows
ItemsAndTotalMatch(f, items, total) ==
    /\ Len(items) = Cardinality(NamedRows(f))
    /\ \A k \in 1..Len(items) :
          /\ items[k].name = f.item_name[NthNamed(f, k)]
          /\ items[k].quantity = Val(ParseFloat(f.quantity[NthNamed(f, k)]))
          /\ items[k].price = Val(ParseFloat(f.price[NthNamed(f, k)]))
          /\ items[k].amount = PyMul(items[k].quantity, items[k].price)
    /\ total.v = SumRowAmounts(f, NamedRows(f))

PreviewOk == preview # None /\ Val(preview).status = 200
ResultOk == result # None /\ Val(result).status = 200

\* C1: whenever generate or create_files (src/app.py) answers a form, its
\* item list is exactly the rows with a non-empty name, in submission order,
\* each with amount = quantity * price, and its total_amount is the sum of
\* quantity * price over those rows; empty-name rows add nothing.
C1_TotalIsSumOfNamedRows ==
    /\ PreviewOk =>
          ItemsAndTotalMatch(form, Val(preview).items, Val(preview).data.total_amount)
    /\ (ResultOk /\ entry = "app") =>
          ItemsAndTotalMatch(form, Val(result).items, Val(result).total_amount)

\* the spec's example: (Widget,2,10), ("",5,3), (Gadget,1,25) give 45.0 on both paths
C1_Witness ==
    /\ PreviewOk /\ ResultOk /\ entry = "app"
    /\ form.item_name = <<"Widget", "", "Gadget">>
    /\ form.quantity = <<<<"2">>, <<"5">>, <<"1">>>>
    /\ form.price = <<<<"1", "0">>, <<"3">>, <<"2", "5">>>>
    /\ Val(preview).data.total_amount = PyFloat(45 * Unit)
    /\ Val(result).total_amount = PyFloat(45 * Unit)
    /\ Len(Val(result).items) = 2

\* the received amount a form submits, in thousandths: 0 when the field is
\* missing or empty
SubmittedReceived(f) ==
    IF IsNone(f.received) \/ Val(f.received) = <<>> THEN 0
    ELSE Val(ParseFloat(Val(f.received))).v

\* C2: the balance of generate and of create_files is total_amount minus
\* received, received being the submitted value or 0 when the field is
\* missing or empty; it is negative when received exceeds the total.
C2_BalanceIsTotalMinusReceived ==
    /\ PreviewOk =>
          /\ Val(preview).data.received.v = SubmittedReceived(form)
          /\ Val(preview).data.balance.v =
                 Val(preview).data.total_amount.v - SubmittedReceived(form)
    /\ (ResultOk /\ entry = "app") =>
          /\ Val(result).received.v = SubmittedReceived(form)
          /\ Val(result).balance.v = Val(result).total_amount.v - SubmittedReceived(form)

\* received 100 against a total of 45: the balance is -55 on both paths
C2_Witness ==
    /\ PreviewOk /\ ResultOk /\ entry = "app"
    /\ SubmittedReceived(form) = 100 * Unit
    /\ Val(result).total_amount.v = 45 * Unit
    /\ Val(result).balance.v = 0 - 55 * Unit
    /\ Val(preview).data.balance.v = 0 - 55 * Unit

\* the number a displayed text denotes: "1,234.50" and "(20.00)" without
\* their separators and parentheses
TextValue(t) == Val(ParseFloat(SelectSeq(t, LAMBDA c : c \notin {",", "(", ")"}))).v

\* an item as <<name, quantity, price, amount>> in thousandths
ItemDictValues(item) == <<item.name, item.quantity.v, item.price.v, item.amount.v>>
ItemsDataValues(row) == <<row[1], row[2].v, TextValue(row[3]), TextValue(row[4])>>

ResultItemValues ==
    [k \in 1..Len(Val(result).items) |->
        IF entry = "app" THEN ItemDictValues(Val(result).items[k])
        ELSE ItemsDataValues(Val(result).items[k])]

PreviewItemValues ==
    [k \in 1..Len(Val(preview).items) |-> ItemDictValues(Val(preview).items[k])]

\* C7: for the same form the preview (generate) and the export (create_files
\* of either entry point) compute the same items, the same total_amount and
\* the same balance.
C7_PreviewAndExportAgree ==
    (PreviewOk /\ ResultOk) =>
        /\ ResultItemValues = PreviewItemValues
        /\ Val(result).total_amount.v = Val(preview).data.total_amount.v
        /\ Val(result).balance.v = Val(preview).data.balance.v

\* the same restricted to src/app.py, and to the totals of the worker
C7_AppAgrees ==
    (PreviewOk /\ ResultOk) =>
        /\ entry = "app" => ResultItemValues = PreviewItemValues
        /\ Val(result).total_amount.v = Val(preview).data.total_amount.v
        /\ Val(result).balance.v = Val(preview).data.balance.v

\* the value a cell reports
CellValue(cell) == IF "num" \in DOMAIN cell THEN cell.num.v ELSE TextValue(cell.str)

SameRow(a, b) ==
    /\ a[1] = b[1]
    /\ \A c \in 2..4 : CellValue(a[c]) = CellValue(b[c])

SameFigures(xlsx, pdf) ==
    /\ CellValue(xlsx.total) = CellValue(pdf.total)
    /\ CellValue(xlsx.received) = CellValue(pdf.received)
    /\ CellValue(xlsx.balance) = CellValue(pdf.balance)
    /\ Len(xlsx.items) = Len(pdf.items)
    /\ \A k \in 1..Len(xlsx.items) : SameRow(xlsx.items[k], pdf.items[k])

\* C8: the spreadsheet and the PDF a create_files request writes report the
\* same total, received and balance, and the same item rows, in both entry
\* points.
C8_SpreadsheetAndPdfAgree ==
    ResultOk =>
        /\ {Val(result).excel_file, Val(result).pdf_file} \subseteq DOMAIN output
        /\ SameFigures(output[Val(result).excel_file], output[Val(result).pdf_file])

\* a request of src/app.py with two items, one at a fractional price, and 20 received
C8_Witness ==
    /\ ResultOk /\ entry = "app"
    /\ Val(result).excel_file \in DOMAIN output
    /\ Val(result).pdf_file \in DOMAIN output
    /\ Len(output[Val(result).pdf_file].items) = 2
    /\ output[Val(result).pdf_file].items[2][3] =
           StrCell(<<"1", "2", "3", "4", ".", "6", "2", "5">>)
    /\ output[Val(result).excel_file].received = NumCell(PyFloat(20 * Unit))
    /\ output[Val(result).pdf_file].received = StrCell(<<"2", "0", ".", "0">>)

\* C12: create_files is all-or-nothing: a request that succeeds leaves both
\* of its files in the output directory, and a request that fails leaves no
\* complete file it wrote (the directory was empty before the request).
C12_AllOrNothing ==
    result # None =>
        IF Val(result).status = 200
        THEN {Val(result).excel_file, Val(result).pdf_file} \subseteq DOMAIN output
        ELSE output = <<>>

\* the text without the parentheses put around a received amount
Unparenthesised(t) == SelectSeq(t, LAMBDA c : c \notin {"(", ")"})

\* t is a figure with two decimals and thousands separators: formatting the
\* number it denotes gives t back
IsTwoDecimalText(t) == Format2(PyFloat(TextValue(t))) = t

\* the cell holds a two-decimal, thousands-separated figure
TwoDecimalFigure(cell) ==
    /\ "str" \in DOMAIN cell
    /\ IsTwoDecimalText(Unparenthesised(cell.str))

\* every price, amount, total, received and balance of the document
AllFiguresTwoDecimal(doc) ==
    /\ TwoDecimalFigure(doc.total)
    /\ TwoDecimalFigure(doc.received)
    /\ TwoDecimalFigure(doc.balance)
    /\ \A k \in 1..Len(doc.items) :
          TwoDecimalFigure(doc.items[k][3]) /\ TwoDecimalFigure(doc.items[k][4])

\* C13: in both entry points every price, amount, total, received and
\* balance is written to the spreadsheet and to the PDF as a two-decimal,
\* thousands-separated figure.
C13_BothFormatsTwoDecimals ==
    ResultOk =>
        /\ AllFiguresTwoDecimal(output[Val(result).excel_file])
        /\ AllFiguresTwoDecimal(output[Val(result).pdf_file])

\* row i of the form has no quantity or no price, or one that is no number
Malformed(f, i) ==
    \/ i > Len(f.quantity)
    \/ i > Len(f.price)
    \/ IsNone(ParseFloat(f.quantity[i]))
    \/ IsNone(ParseFloat(f.price[i]))

NamedRowMalformed(f) == \E i \in NamedRows(f) : Malformed(f, i)

\* the header is complete, received is a number and every named row parses
Parses(f) ==
    /\ HeaderComplete(f)
    /\ ~IsNone(ParseFloat(ReceivedText(f)))
    /\ ~NamedRowMalformed(f)

\* C15: rows are matched by position and an empty-name row is skipped before
\* its quantity and price are read: a named row with a malformed or missing
\* quantity or price makes generate and create_files fail, in create_files
\* before any file is written; a malformed empty-name row never does (a
\* form that parses otherwise is answered 200, or by create_files 500 only
\* for a Paragraph that does not parse).
C15_EmptyNameRowsSkippedBeforeParsing ==
    /\ preview # None =>
          /\ NamedRowMalformed(form) => Val(preview).status # 200
          /\ Parses(form) => Val(preview).status = 200
    /\ PreviewOk =>
          ItemsAndTotalMatch(form, Val(preview).items, Val(preview).data.total_amount)
    /\ result # None =>
          /\ NamedRowMalformed(form) => (Val(result).status # 200 /\ output = <<>>)
          /\ Parses(form) =>
                 (Val(result).status = 200 \/ DepositInfo(form) \in UnclosedMarkup)

\* a form whose second row has no name, quantity "x" and no price, between
\* two rows that parse: both handlers answer 200 with two items
C15_Witness ==
    /\ PreviewOk /\ ResultOk
    /\ Len(form.item_name) = 3
    /\ form.item_name[2] = "" /\ form.quantity[2] = <<"x">> /\ form.price[2] = <<>>
    /\ Len(Val(preview).items) = 2
    /\ Len(Val(result).items) = 2
    /\ Val(preview).items[2].name = form.item_name[3]

-----------------------------------------------------------------------------
(* Claims about the record store (checked under Spec).  A step of Spec is   *)
(* one request; resp' is that request and its response.                      *)

Ids(table) == DOMAIN table

IsSave(r) == r # None /\ Val(r).op = "save_quotation"
IsCreate(r) == IsSave(r) /\ ~Truthy(DataGet(Val(r).data, "id"))
IsUpdate(r) == IsSave(r) /\ Truthy(DataGet(Val(r).data, "id"))
IsGet(r) == r # None /\ Val(r).op = "get_quotation"
IsDelete(r) == r # None /\ Val(r).op = "delete_quotation"
IsList(r) == r # None /\ Val(r).op = "get_quotations"

OthersUnchanged(i) ==
    \A j \in Ids(quotations) \ {i} : j \in Ids(quotations') /\ quotations'[j] = quotations[j]

\* a save with no id adds one row under an id no other row has
CreateAddsOneRow ==
    (IsCreate(resp') /\ Val(resp').status = 200) =>
        /\ Val(resp').body.id \notin Ids(quotations)
        /\ Ids(quotations') = Ids(quotations) \cup {Val(resp').body.id}
        /\ Cardinality(Ids(quotations')) = Cardinality(Ids(quotations)) + 1
        /\ OthersUnchanged(Val(resp').body.id)

\* a save with the id of an existing row changes that row only
UpdateChangesOneRow ==
    (IsUpdate(resp') /\ Val(resp').data.id \in Ids(quotations)) =>
        /\ Val(resp').status = 200
        /\ Val(resp').body.id = Val(resp').data.id
        /\ Ids(quotations') = Ids(quotations)
        /\ OthersUnchanged(Val(resp').data.id)

\* C3: save_quotation with no id adds exactly one row and returns an id that
\* no other row of the store has; with the id of an existing row it changes
\* that row only, returns that id and leaves the number of rows unchanged.
C3_SaveCreatesOrUpdatesOneRow == [][CreateAddsOneRow /\ UpdateChangesOneRow]_vars

\* a create that follows a delete, and an update, each with other rows present
C3_Witness ==
    /\ IsSave(resp) /\ Val(resp).status = 200
    /\ Cardinality(Ids(quotations)) = 2
    /\ Val(resp).body.id \in Ids(quotations)
    /\ 1 \notin Ids(quotations)

\* C4: get_quotation and delete_quotation on an id that is not in the store
\* answer 404 and leave every row as it was.
C4_UnknownIdIsNotFound ==
    [][((IsGet(resp') \/ IsDelete(resp')) /\ Val(resp').id \notin Ids(quotations)) =>
          (Val(resp').status = 404 /\ quotations' = quotations)]_vars

\* a delete of an id that is not there, with rows in the store
C4_Witness ==
    /\ IsDelete(resp) /\ Val(resp).status = 404
    /\ Val(resp).id \notin Ids(quotations)
    /\ Val(resp).id > 0
    /\ Ids(quotations) # {}

\* delete_quotation on an existing id removes that row and no other
DeleteRemovesOneRow ==
    (IsDelete(resp') /\ Val(resp').id \in Ids(quotations)) =>
        /\ Val(resp').status = 200
        /\ Ids(quotations') = Ids(quotations) \ {Val(resp').id}
        /\ OthersUnchanged(Val(resp').id)

\* an id that is not in the store comes back only by a save that creates it
OnlyCreateBringsBack ==
    \A i \in Ids(quotations') \ Ids(quotations) :
        IsCreate(resp') /\ Val(resp').status = 200 /\ Val(resp').body.id = i

\* a listing holds the ids of the store and no other; a fetch is answered
\* 404 exactly when the id is not in the store
ReadsSeeTheStore ==
    /\ IsList(resp') =>
          {Val(resp').body[k].id : k \in DOMAIN Val(resp').body} = Ids(quotations')
    /\ IsGet(resp') => (Val(resp').status = 404 <=> Val(resp').id \notin Ids(quotations'))

\* C5: delete_quotation on an existing id removes exactly that row; the id is
\* in no later listing and a later fetch of it is not found until a save
\* creates a row with that id; every other row is unchanged.
C5_DeleteRemovesExactlyThatRow ==
    [][DeleteRemovesOneRow /\ OnlyCreateBringsBack /\ ReadsSeeTheStore]_vars

\* a delete that succeeded and left other rows
C5_Witness ==
    /\ IsDelete(resp) /\ Val(resp).status = 200
    /\ Val(resp).id \notin Ids(quotations)
    /\ Cardinality(Ids(quotations)) = 2

\* the listing returns every row of the store exactly once
ListsEveryRowOnce ==
    /\ Len(Val(resp).body) = Cardinality(Ids(quotations))
    /\ \A i \in Ids(quotations) :
          \E k \in DOMAIN Val(resp).body : Val(resp).body[k] = ToDict(i, quotations[i])

\* a >= b for two dates, a missing date counting as smaller than any string
DateGeq(a, b) ==
    IF IsNone(b) THEN TRUE
    ELSE IF IsNone(a) THEN FALSE
    ELSE ~TextLess(Val(a), Val(b))

\* C6 as stated: every row once, and each entry's date >= the next entry's
C6_ListedByDateDescending ==
    IsList(resp) =>
        /\ ListsEveryRowOnce
        /\ \A k \in 1..(Len(Val(resp).body) - 1) :
              DateGeq(Val(resp).body[k].date, Val(resp).body[k + 1].date)

\* C6 (amended): get_quotations returns every row once; the rows that have a
\* date are in descending order of the date string, and the rows whose date
\* is null come after them on sqlite and before them on postgresql.
C6_DatedRowsDescendingNullsGrouped ==
    IsList(resp) =>
        /\ ListsEveryRowOnce
        /\ \A k \in DOMAIN Val(resp).body : \A m \in DOMAIN Val(resp).body :
              (k < m /\ ~IsNone(Val(resp).body[k].date) /\ ~IsNone(Val(resp).body[m].date))
                  => ~TextLess(Val(Val(resp).body[k].date), Val(Val(resp).body[m].date))
        /\ \A k \in DOMAIN Val(resp).body : \A m \in DOMAIN Val(resp).body :
              (k < m /\ IsNone(Val(resp).body[k].date) /\ ~IsNone(Val(resp).body[m].date))
                  => dialect = "postgresql"
        /\ \A k \in DOMAIN Val(resp).body : \A m \in DOMAIN Val(resp).body :
              (k < m /\ ~IsNone(Val(resp).body[k].date) /\ IsNone(Val(resp).body[m].date))
                  => dialect = "sqlite"

\* a listing of three rows: "2024-1-3" before "2024-01-05" before a row with no date
C6_Witness ==
    /\ IsList(resp)
    /\ Len(Val(resp).body) = 3
    /\ Val(resp).body[1].date = Some(Date2)
    /\ Val(resp).body[2].date = Some(Date1)
    /\ Val(resp).body[3].date = None

\* the row a payload asks for: every column the payload's value, None for an
\* absent key, items the JSON text of the items list
RowHoldsPayload(row, data) ==
    /\ \A c \in Columns \ {"items"} : row[c] = DataGet(data, c)
    /\ row.items = Some(JsonDumps(IF "items" \in DOMAIN data THEN data.items ELSE <<>>))

\* C9: after a save with payload P succeeds with id i the row i holds, in
\* every column, the value of P (None for an absent key, the JSON text of the
\* items); the row then changes only by a save or delete of i, and
\* get_quotation(i) returns the row's columns, so that it returns P until then.
C9_SaveOverwritesAllFields ==
    [][/\ (IsSave(resp') /\ Val(resp').status = 200) =>
             /\ Val(resp').body.id \in Ids(quotations')
             /\ RowHoldsPayload(quotations'[Val(resp').body.id], Val(resp').data)
       /\ \A i \in Ids(quotations) :
             (i \notin Ids(quotations') \/ quotations'[i] # quotations[i]) =>
                 \/ IsUpdate(resp') /\ Val(resp').data.id = i
                 \/ IsDelete(resp') /\ Val(resp').id = i
       /\ (IsGet(resp') /\ Val(resp').status = 200) =>
             Val(resp').body = ToDict(Val(resp').id, quotations'[Val(resp').id])]_vars

\* an update with a payload of one key: the row's other columns are now None
C9_Witness ==
    /\ IsUpdate(resp) /\ Val(resp).status = 200
    /\ DOMAIN Val(resp).data = {"id", "quotation_no"}
    /\ quotations[Val(resp).data.id].quotation_no = Some("Q3")
    /\ quotations[Val(resp).data.id].company_name = None
    /\ quotations[Val(resp).data.id].items = Some(<<"[", "]">>)

\* the payload has no id: the key is absent, its value is null, or it is 0
NoId(data) == "id" \notin DOMAIN data \/ data.id = 0

\* C14: save_quotation with an id other than 0 that no row has (never
\* created, or deleted) answers 404 with success false and leaves the store
\* as it was, so it never makes a row under that id; with the id absent,
\* null or 0 it makes a new row.
C14_SaveUnknownIdIsNotFound ==
    [][IsSave(resp') =>
          /\ (~NoId(Val(resp').data) /\ Val(resp').data.id \notin Ids(quotations)) =>
                 /\ Val(resp').status = 404
                 /\ Val(resp').body.success = FALSE
                 /\ quotations' = quotations
                 /\ seq' = seq
          /\ NoId(Val(resp').data) =>
                 /\ Val(resp').status = 200
                 /\ Val(resp').body.success
                 /\ Val(resp').body.id \notin Ids(quotations)
                 /\ Ids(quotations') = Ids(quotations) \cup {Val(resp').body.id}]_vars

\* on postgresql, where ids are never handed out twice: a save under an id
\* that was created and then deleted is answered 404, other rows remaining
C14_Witness ==
    /\ IsSave(resp) /\ Val(resp).status = 404
    /\ dialect = "postgresql"
    /\ Val(resp).data.id <= seq
    /\ Val(resp).data.id \notin Ids(quotations)
    /\ Ids(quotations) # {}

\* a save whose id is null has made a second row
C14_NullIdWitness ==
    /\ IsSave(resp) /\ Val(resp).status = 200
    /\ "null" \in DOMAIN Val(resp).data
    /\ Cardinality(Ids(quotations)) = 2

-----------------------------------------------------------------------------
(* Claims about concurrent saves (checked under SpecConc) *)

\* worker w has committed an update of row i
UpdatedRow(w, i) ==
    /\ sessions[w].pc = "done"
    /\ sessions[w].status = 200
    /\ ~IsNone(sessions[w].loaded)
    /\ Val(sessions[w].data).id = i

\* a and b ran at the same time: neither had committed when the other read the row
Overlapped(a, b) ==
    /\ \A k \in DOMAIN sessions[a].seen : sessions[a].seen[k] # b
    /\ \A k \in DOMAIN sessions[b].seen : sessions[b].seen[k] # a

\* C10: when two save_quotation requests for the same existing id run at the
\* same time, neither is rejected, and once both have committed the row
\* holds in every column the payload of the one that committed last.
C10_LastCommitWins ==
    /\ \A w \in 1..MaxReq :
          (sessions[w].pc = "done" /\ ~IsNone(sessions[w].loaded)) => sessions[w].status = 200
    /\ \A a \in 1..MaxReq : \A b \in 1..MaxReq : \A i \in Ids(quotations) :
          (/\ a # b
           /\ UpdatedRow(a, i) /\ UpdatedRow(b, i)
           /\ Overlapped(a, b)
           /\ commits # <<>> /\ commits[Len(commits)] = b)
              => RowHoldsPayload(quotations[i], Val(sessions[b].data))

-----------------------------------------------------------------------------
(* Claims about concurrent create_files requests (checked under SpecFiles) *)

\* every request has been answered
AllAnswered == \A w \in 1..MaxReq : jobs[w].pc \in {"idle", "done"}

\* the two file names a request with quotation number `no` writes to
FileNames(e, no) ==
    IF e = "app" THEN {<<"Quotation", no, "xlsx">>, <<"Quotation", no, "pdf">>}
    ELSE {<<"Quotation", "xlsx">>, <<"Quotation", "pdf">>}

\* every file a request wrote is one of the two files of its quotation
\* number (src/app.py) or one of the two fixed files (the worker), so that
\* requests with one number write the same files and, in src/app.py,
\* requests with different numbers write disjoint files
WritesItsOwnNames ==
    /\ \A k \in DOMAIN written :
          written[k].name \in FileNames(entry, Val(jobs[written[k].by].form).header.quotation_no)
    /\ DOMAIN output \subseteq
          UNION {FileNames(entry, Val(jobs[w].form).header.quotation_no) :
                    w \in {v \in 1..MaxReq : jobs[v].pc # "idle"}}

\* the write of `name` that completed last
IsLastWrite(k, name) ==
    /\ k \in DOMAIN written
    /\ written[k].name = name
    /\ \A m \in DOMAIN written : m > k => written[m].name # name

\* C11 as stated: once all requests have completed each file holds the
\* document of the request that wrote it last
C11_EachFileFromItsLastWriter ==
    /\ WritesItsOwnNames
    /\ AllAnswered =>
          \A name \in DOMAIN output : \A k \in DOMAIN written :
              IsLastWrite(k, name) => output[name] = written[k].doc

\* C11 (amended): concurrent create_files requests with one quotation number
\* write the same two files (in the worker every request writes the two
\* fixed files, in src/app.py requests with different numbers write disjoint
\* files); once all have completed, a file whose last write overlapped no
\* other write of that file holds the document of the request that wrote it
\* last, and a file whose last write overlapped another holds the document
\* of one of the requests that wrote it or a mixture that is no document.
C11_FilesOverwrittenPerFile ==
    /\ WritesItsOwnNames
    /\ AllAnswered =>
          \A name \in DOMAIN output : \A k \in DOMAIN written :
              IsLastWrite(k, name) =>
                  IF written[k].raced
                  THEN output[name] \in
                           {Torn} \cup {written[m].doc :
                                           m \in {j \in DOMAIN written : written[j].name = name}}
                  ELSE output[name] = written[k].doc

\* two requests with one quotation number and different rows have completed
\* without overlapping writes: the spreadsheet left is the one of request 1
\* and the PDF the one of request 2
C11_Witness ==
    /\ AllAnswered
    /\ jobs[1].status = 200 /\ jobs[2].status = 200
    /\ Val(jobs[1].form).header.quotation_no = Val(jobs[2].form).header.quotation_no
    /\ Val(jobs[1].form).item_name # Val(jobs[2].form).item_name
    /\ Len(written) = 4
    /\ \A k \in DOMAIN written : ~written[k].raced
    /\ written[2].by = 1 /\ written[2].name[Len(written[2].name)] = "xlsx"
    /\ written[4].by = 2 /\ written[4].name[Len(written[4].name)] = "pdf"
    /\ output[written[2].name] = written[2].doc
    /\ output[written[4].name] = written[4].doc
    /\ output[written[2].name].items # output[written[4].name].items

====
